---- MODULE Spec2Model ----
(***************************************************************************)
(* The workshop notebook Building_Agent_using_Gemini_Boilerplate.ipynb as  *)
(* a state machine: the kernel namespace (api_key, client, user_prompt,    *)
(* response), what the cells print, the model requests sent, and the       *)
(* cells run from top to bottom.  The <...> placeholders of the            *)
(* boilerplate are values the participant types in; they are drawn from    *)
(* small sets.  Comment-only placeholders ("# call the function") are what *)
(* Python makes of them: nothing.                                          *)
(***************************************************************************)
EXTENDS Integers, Sequences, FiniteSets, TLC

VARIABLES
    pc,          \* the cell about to run, "done" after the last, "halted" after an error
    keyName,     \* what the participant wrote for <Name of your key>
    secret,      \* the state of that secret in the Colab secret store
    resource,    \* GitHub: what GET /users/{username} answers, per username
    api_key,     \* kernel name api_key
    declName,    \* get_github_user_info_declaration["name"]
    calls,       \* the calls of get_github_user_info made in the test cell
    client,      \* kernel name client (the key it was built from)
    user_prompt, \* kernel name user_prompt (the username it is templated with)
    response,    \* kernel name response
    modelReqs,   \* the generate_content requests sent so far
    invoked,     \* the tool invocations made by the dispatch cell
    out,         \* lines printed by the notebook's own cells
    errors       \* uncaught exceptions, as <<cell, exception>>

vars == <<pc, keyName, secret, resource, api_key, declName, calls, client,
          user_prompt, response, modelReqs, invoked, out, errors>>

\* Calls of the tool function made by hand in the test cell.
MaxCalls == 2

----------------------------------------------------------------------------
\* Values

Unbound == "<unbound>"


SecretStates == {"absent", "denied", "granted"}

SecretValue(name) == IF name = "GOOGLE_API_KEY" THEN "key-of-GOOGLE_API_KEY"
                     ELSE "key-of-GEMINI_API_KEY"

\* The name the README tells the participant to give the secret.
ReadmeKeyName == "GEMINI_API_KEY"

\* The name the loader's messages are written with.
MessageKeyName == "GOOGLE_API_KEY"

\* The names a participant may write for <Name of your key>.
KeyNames == {MessageKeyName, ReadmeKeyName}

Usernames == {"google", "no-such-user-0"}

KnownTool == "get_github_user_info"

ToolNames == {KnownTool, "get_user"}

Texts == {"Google has 2700 public repos.", "I could not find that user."}

ModelId == "gemini-2.5-flash"

Line(fmt, arg) == [fmt |-> fmt, arg |-> arg]

----------------------------------------------------------------------------
\* GitHub and the HTTP layer

UserBody == [syntax |-> "json",
             pairs |-> << <<"login", "google">>, <<"name", "Google">>,
                          <<"bio", "Google loves Open Source">>,
                          <<"public_repos", "2700">>, <<"followers", "50000">> >>]

NotFoundBody == [syntax |-> "json",
                 pairs |-> << <<"message", "Not Found">>, <<"status", "404">> >>]

HtmlBody == [syntax |-> "html", pairs |-> << >>]

ResourceStates == { [status |-> 200, body |-> UserBody],
                    [status |-> 404, body |-> NotFoundBody],
                    [status |-> 500, body |-> HtmlBody],
                    [status |-> 200, body |-> HtmlBody] }

\* What requests.get does: a response, or an exception of the transport.
NetOutcomes(username) ==
    { [kind |-> "response", status |-> resource[username].status,
       body |-> resource[username].body, exc |-> ""],
      [kind |-> "exception", status |-> 0, body |-> HtmlBody,
       exc |-> "ConnectionError"] }

\* A raise_for_status that lets 4xx through.
RaisesForStatus_ServerOnly(status) == status >= 500 /\ status < 600

\* response.raise_for_status(): raises HTTPError for 4xx and 5xx.
RaisesForStatus(status) == status >= 400 /\ status < 600

RECURSIVE DictOf(_)
\* A dict built from JSON members in order: a repeated key keeps its last value.
DictOf(pairs) ==
    IF pairs = << >> THEN << >>
    ELSE LET n    == Len(pairs)
             rest == DictOf(SubSeq(pairs, 1, n - 1))
             k    == pairs[n][1]
         IN  [x \in (DOMAIN rest) \cup {k} |->
                 IF x = k THEN pairs[n][2] ELSE rest[x]]

\* response.json(): the parsed body, or JSONDecodeError.
JsonRaises(body) == body.syntax # "json"

ParseJson(body) == DictOf(body.pairs)

----------------------------------------------------------------------------
\* The tool function

Activated(username) ==
    Line("--- TOOL ACTIVATED: Calling GitHub API for user: {} ---", username)

\* A success path that wraps the body instead of returning it.
OnSuccess_Wrapped(username, body) ==
    [result |-> [data |-> ParseJson(body)], raised |-> "", gets |-> 1,
     printed |-> << Activated(username) >>]

\* return response.json()
OnSuccess(username, body) ==
    [result |-> ParseJson(body), raised |-> "", gets |-> 1,
     printed |-> << Activated(username) >>]

\* An HTTP error handler that tries the GET once more.
OnHTTPError_Retry(username, status) ==
    [result |-> [error |-> <<"HTTP error occurred: {}", "HTTPError">>,
                 status_code |-> status],
     raised |-> "", gets |-> 2,
     printed |-> << Activated(username),
                    Line("--- GitHub API Error: {} ---", "HTTPError") >>]

\* except requests.exceptions.HTTPError as http_err
OnHTTPError(username, status) ==
    [result |-> [error |-> <<"HTTP error occurred: {}", "HTTPError">>,
                 status_code |-> status],
     raised |-> "", gets |-> 1,
     printed |-> << Activated(username),
                    Line("--- GitHub API Error: {} ---", "HTTPError") >>]

\* A generic handler that prints and raises again.
OnException_Reraise(username, exc) ==
    [result |-> << >>, raised |-> exc, gets |-> 1,
     printed |-> << Activated(username),
                    Line("--- An unexpected error occurred: {} ---", exc) >>]

\* except Exception as e
OnException(username, exc) ==
    [result |-> [error |-> <<"An unexpected error occurred: {}", exc>>],
     raised |-> "", gets |-> 1,
     printed |-> << Activated(username),
                    Line("--- An unexpected error occurred: {} ---", exc) >>]

\* One call, given what its requests.get does.  The value is what the call
\* returns (result), the exception that leaves it (raised, "" for none), the
\* number of GETs it issued and the lines it printed.
get_github_user_info(username, net) ==
    IF net.kind = "exception" THEN OnException(username, net.exc)
    ELSE IF RaisesForStatus(net.status) THEN OnHTTPError(username, net.status)
    ELSE IF JsonRaises(net.body) THEN OnException(username, "JSONDecodeError")
    ELSE OnSuccess(username, net.body)

----------------------------------------------------------------------------
\* The model session

NoResponse == [kind |-> "none", name |-> "", username |-> "", text |-> ""]

\* What generate_content may answer when the declared tool is `decl`: a
\* function call naming it, with any username, or text.
ModelResponses(decl) ==
    { [kind |-> "function_call", name |-> decl, username |-> u, text |-> ""] :
        u \in Usernames }
    \cup { [kind |-> "text", name |-> "", username |-> "", text |-> t] :
        t \in Texts }

\* response.candidates[0].content.parts[0].function_call is truthy
HasFunctionCall(resp) == resp.kind = "function_call"

Request(prompt, decl) == [model |-> ModelId, contents |-> prompt, tools |-> decl]

----------------------------------------------------------------------------
\* The cells

Init ==
    /\ pc = "loader"
    /\ keyName \in KeyNames
    /\ secret \in SecretStates
    /\ resource \in [Usernames -> ResourceStates]
    /\ api_key = Unbound
    /\ declName = Unbound
    /\ calls = << >>
    /\ client = Unbound
    /\ user_prompt = Unbound
    /\ response = NoResponse
    /\ modelReqs = << >>
    /\ invoked = << >>
    /\ out = << >>
    /\ errors = << >>

\* An exception no cell catches: the traceback is shown; "Run all" stops
\* there, a participant running cell by cell may go on to the next cell.
Uncaught(cell, exc, next) ==
    /\ errors' = Append(errors, <<cell, exc>>)
    /\ pc' \in {"halted", next}

\* A loader that falls back to an empty key.
LoaderKey_Empty == IF secret = "granted" THEN SecretValue(keyName) ELSE ""

\* What the loader binds api_key to, and what it prints.
LoaderKey == IF secret = "granted" THEN SecretValue(keyName) ELSE api_key

LoaderPrints ==
    CASE secret = "granted" -> << >>
      [] secret = "absent" ->
            << Line("ERROR: {} not found.", MessageKeyName),
               Line("Please go to the Key icon, add a new secret named {}",
                    MessageKeyName) >>
      [] OTHER ->
            << Line("An error occurred during API configuration: {}",
                    "NotebookAccessError") >>

\* try: api_key = userdata.get(<Name of your key>) except ...: print(...)
LoaderCell ==
    /\ pc = "loader"
    /\ api_key' = LoaderKey
    /\ out' = out \o LoaderPrints
    /\ pc' = "declare"
    /\ UNCHANGED <<keyName, secret, resource, declName, calls, client,
                   user_prompt, response, modelReqs, invoked, errors>>

\* get_github_user_info_declaration = {"name": <name of function>, ...}
DeclarationCell ==
    /\ pc = "declare"
    /\ \E n \in ToolNames : declName' = n
    /\ pc' = "tooltest"
    /\ UNCHANGED <<keyName, secret, resource, api_key, calls, client,
                   user_prompt, response, modelReqs, invoked, out, errors>>

\* "Call the function and see if it works as expected": one call by hand.
TestCall ==
    /\ pc = "tooltest"
    /\ Len(calls) < MaxCalls
    /\ \E u \in Usernames : \E net \in NetOutcomes(u) :
          calls' = Append(calls, [username |-> u, net |-> net,
                                  ret |-> get_github_user_info(u, net)])
    /\ UNCHANGED <<pc, keyName, secret, resource, api_key, declName, client,
                   user_prompt, response, modelReqs, invoked, out, errors>>

TestDone ==
    /\ pc = "tooltest"
    /\ pc' = "client"
    /\ UNCHANGED <<keyName, secret, resource, api_key, declName, calls, client,
                   user_prompt, response, modelReqs, invoked, out, errors>>

\* client = genai.Client(api_key=api_key): NameError when api_key is unbound.
ClientCell ==
    /\ pc = "client"
    /\ IF api_key = Unbound
       THEN /\ Uncaught("client", "NameError", "input")
            /\ UNCHANGED client
       ELSE /\ client' = api_key
            /\ pc' = "input"
            /\ UNCHANGED errors
    /\ UNCHANGED <<keyName, secret, resource, api_key, declName, calls,
                   user_prompt, response, modelReqs, invoked, out>>

\* github_username = input(...); user_prompt = f"... {github_username} ..."
InputCell ==
    /\ pc = "input"
    /\ \E u \in Usernames : user_prompt' = u
    /\ pc' = "generate"
    /\ UNCHANGED <<keyName, secret, resource, api_key, declName, calls, client,
                   response, modelReqs, invoked, out, errors>>

\* response = client.models.generate_content(model, contents, config)
GenerateCell ==
    /\ pc = "generate"
    /\ IF client = Unbound
       THEN /\ Uncaught("generate", "NameError", "dispatch")
            /\ UNCHANGED <<response, modelReqs>>
       ELSE /\ modelReqs' = Append(modelReqs, Request(user_prompt, declName))
            /\ \/ /\ \E r \in ModelResponses(declName) : response' = r
                  /\ pc' = "dispatch"
                  /\ UNCHANGED errors
               \/ /\ Uncaught("generate", "APIError", "dispatch")
                  /\ UNCHANGED response
    /\ UNCHANGED <<keyName, secret, resource, api_key, declName, calls, client,
                   user_prompt, invoked, out>>

\* The if branch: two prints, then two comments.
IfBranchPrints(resp) ==
    << Line("Function to call: {}", resp.name),
       Line("Arguments: {}", resp.username) >>

\* "# call the function": the tool invocations the if branch makes.
IfBranchInvokes(resp) == << >>

\* "# Make another call ...": the model requests the if branch sends.
IfBranchRequests(resp) == << >>

\* An else branch that prints the notice only.
ElseBranchPrints_NoticeOnly(resp) ==
    << Line("No function call found in the response.", "") >>

\* The else branch: the notice, then response.text.
ElseBranchPrints(resp) ==
    << Line("No function call found in the response.", ""),
       Line("{}", resp.text) >>

ElseBranchInvokes(resp) == << >>

ElseBranchRequests(resp) == << >>

DispatchCell ==
    /\ pc = "dispatch"
    /\ IF response = NoResponse
       THEN /\ Uncaught("dispatch", "NameError", "done")
            /\ UNCHANGED <<out, invoked, modelReqs>>
       ELSE /\ IF HasFunctionCall(response)
               THEN /\ out' = out \o IfBranchPrints(response)
                    /\ invoked' = invoked \o IfBranchInvokes(response)
                    /\ modelReqs' = modelReqs \o IfBranchRequests(response)
               ELSE /\ out' = out \o ElseBranchPrints(response)
                    /\ invoked' = invoked \o ElseBranchInvokes(response)
                    /\ modelReqs' = modelReqs \o ElseBranchRequests(response)
            /\ pc' = "done"
            /\ UNCHANGED errors
    /\ UNCHANGED <<keyName, secret, resource, api_key, declName, calls, client,
                   user_prompt, response>>

Next ==
    \/ LoaderCell
    \/ DeclarationCell
    \/ TestCall
    \/ TestDone
    \/ ClientCell
    \/ InputCell
    \/ GenerateCell
    \/ DispatchCell

Spec == Init /\ [][Next]_vars

----------------------------------------------------------------------------
\* Properties

Finished == pc = "done"

Printed(fmt) == { i \in DOMAIN out : out[i].fmt = fmt }

IsHTTPErrorCall(c) == c.net.kind = "response" /\ c.net.status \in 400..599

IsOtherFailureCall(c) ==
    \/ c.net.kind = "exception"
    \/ c.net.kind = "response" /\ c.net.status \in 200..399
                               /\ c.net.body.syntax # "json"

IsSuccessCall(c) == c.net.kind = "response" /\ c.net.status \in 200..299
                                            /\ c.net.body.syntax = "json"

\* C1: once the dispatch cell has run on a response whose function call
\* names the known tool, that tool has been invoked exactly once with the
\* request's arguments and exactly one second model request has been sent.
C1_ToolInvokedAndResubmitted ==
    (Finished /\ HasFunctionCall(response) /\ response.name = KnownTool)
        => /\ invoked = << [name |-> response.name, username |-> response.username] >>
           /\ Len(modelReqs) = 2

\* C2: a call whose GET answers with an error status returns a payload with
\* the key error and status_code equal to that status, and raises nothing.
C2_HTTPErrorPayload ==
    \A i \in DOMAIN calls :
        IsHTTPErrorCall(calls[i])
            => /\ calls[i].ret.raised = ""
               /\ {"error", "status_code"} \subseteq DOMAIN calls[i].ret.result
               /\ calls[i].ret.result.status_code = calls[i].net.status

C2_Witness ==
    \E i \in DOMAIN calls : calls[i].net.kind = "response" /\ calls[i].net.status = 404

\* C3: once the dispatch cell has run on a function call naming a tool it
\* does not know, an error has been reported: an exception shown, or a line
\* other than the ones printed for any function call.
C3_UnknownToolReported ==
    (Finished /\ HasFunctionCall(response) /\ response.name # KnownTool)
        => \/ \E i \in DOMAIN errors : errors[i][1] = "dispatch"
           \/ \E i \in DOMAIN out :
                  out[i].fmt \notin {"Function to call: {}", "Arguments: {}"}

\* C4: once the dispatch cell has run on a response without a function call,
\* no tool was invoked, no model request beyond the first was sent, and the
\* one text line printed is response.text as the model gave it.
C4_TextPassedThrough ==
    (Finished /\ response.kind = "text")
        => /\ invoked = << >>
           /\ Len(modelReqs) = 1
           /\ out # << >>
           /\ out[Len(out)] = Line("{}", response.text)
           /\ Cardinality(Printed("{}")) = 1

C4_Witness ==
    /\ Finished
    /\ response.kind = "text"
    /\ response.text \in Texts
    /\ Len(out) = 2

\* C5: when the secret is missing, no client is ever built and no model
\* request is ever sent, and api_key is never an empty string.
C5_NoClientWithoutKey ==
    secret = "absent"
        => /\ client = Unbound
           /\ modelReqs = << >>
           /\ api_key # ""

C5_Witness ==
    /\ secret = "absent"
    /\ Finished
    /\ \E i \in DOMAIN errors : errors[i] = <<"client", "NameError">>
    /\ \E i \in DOMAIN errors : errors[i] = <<"generate", "NameError">>

\* C6: once the loader has run with the secret missing, the name in its
\* "not found" message is the name it passed to the secret store.
C6_MessageNamesLookedUpKey ==
    (pc # "loader" /\ secret = "absent")
        => /\ Printed("ERROR: {} not found.") # {}
           /\ \A i \in Printed("ERROR: {} not found.") : out[i].arg = keyName

\* C7: a call that fails otherwise than by an HTTP error status (the GET
\* raises, or the body is not JSON) returns a payload whose only key is
\* error, and raises nothing.
C7_OtherFailurePayload ==
    \A i \in DOMAIN calls :
        IsOtherFailureCall(calls[i])
            => /\ calls[i].ret.raised = ""
               /\ DOMAIN calls[i].ret.result = {"error"}

C7_Witness ==
    /\ \E i \in DOMAIN calls : calls[i].net.kind = "exception"
    /\ \E i \in DOMAIN calls :
          /\ calls[i].net.kind = "response"
          /\ calls[i].net.status = 200
          /\ calls[i].net.body.syntax = "html"

\* C8: a finished run that sent the prompt has shown the user a final
\* natural-language answer or a diagnostic.
C8_AnswerOrDiagnostic ==
    (Finished /\ modelReqs # << >>)
        => \/ \E i \in Printed("{}") : out[i].arg \in Texts
           \/ errors # << >>

\* C9: a run invokes the tool at most once and sends at most two model
\* requests, and every call of the tool issued exactly one GET.
C9_AtMostOnceAndNoRetry ==
    /\ Len(invoked) <= 1
    /\ Len(modelReqs) <= 2
    /\ \A i \in DOMAIN calls : calls[i].ret.gets = 1

C9_Witness ==
    /\ Finished
    /\ HasFunctionCall(response)
    /\ Len(modelReqs) = 1
    /\ \E i \in DOMAIN calls : IsHTTPErrorCall(calls[i])
    /\ \E i \in DOMAIN calls : calls[i].net.kind = "exception"

====
